---------------------------- MODULE Spec2Model ----------------------------
(***************************************************************************)
(* Model of URLDownloader.execute (src/urldownloader.py): the pass over    *)
(* the HAR capture written by Kangooroo, the redirect list, the table of   *)
(* downloaded content, the filename resolution and the classification of   *)
(* each download as extracted or supplementary, with the choice of the     *)
(* output folder before the pass and detect_open_directory on the pages of *)
(* the target URLs; and of the tag-driven downloader of                    *)
(* src/urldownloader/urldownloader.py.                                     *)
(*                                                                         *)
(* Python strings whose characters matter (header values, URLs, file       *)
(* names) are sequences of one-character strings.                          *)
(***************************************************************************)
EXTENDS Integers, Sequences, FiniteSets, TLC

(***************************************************************************)
(* Strings                                                                 *)
(***************************************************************************)
Rep(c, n) == [i \in 1..n |-> c]

\* s[p:] starts with pre (p is 1-based)
StartsWithAt(s, p, pre) ==
    /\ p >= 1
    /\ p + Len(pre) - 1 <= Len(s)
    /\ \A i \in 1..Len(pre) : s[p + i - 1] = pre[i]

\* s[from:] with a 1-based from
Tail_from(s, from) == SubSeq(s, from, Len(s))

\* str.find(c, from): the least index >= from holding c, 0 when there is none
IndexFrom(s, c, from) ==
    IF \E i \in from..Len(s) : s[i] = c
    THEN CHOOSE i \in from..Len(s) : s[i] = c /\ \A j \in from..(i - 1) : s[j] # c
    ELSE 0

\* str.rfind(c): the greatest index holding c, 0 when there is none
LastIndex(s, c) ==
    IF \E i \in 1..Len(s) : s[i] = c
    THEN CHOOSE i \in 1..Len(s) : s[i] = c /\ \A j \in (i + 1)..Len(s) : s[j] # c
    ELSE 0

Contains(s, c) == \E i \in 1..Len(s) : s[i] = c

LowerLetters == <<"a","b","c","d","e","f","g","h","i","j","k","l","m","n","o","p","q","r","s","t","u","v","w","x","y","z">>
UpperLetters == <<"A","B","C","D","E","F","G","H","I","J","K","L","M","N","O","P","Q","R","S","T","U","V","W","X","Y","Z">>
Digits == <<"0","1","2","3","4","5","6","7","8","9">>

IsLetter(c) == \E i \in 1..26 : LowerLetters[i] = c \/ UpperLetters[i] = c
IsDigit(c) == \E i \in 1..10 : Digits[i] = c
DigitVal(c) == (CHOOSE i \in 1..10 : Digits[i] = c) - 1

\* str.lower() on one character
LowerChar(c) ==
    IF \E i \in 1..26 : UpperLetters[i] = c
    THEN LowerLetters[CHOOSE i \in 1..26 : UpperLetters[i] = c]
    ELSE c

\* \w of the re module, on the ASCII characters
IsWordChar(c) == IsLetter(c) \/ IsDigit(c) \/ c = "_"

(***************************************************************************)
(* The two Content-Disposition patterns, as re.search applies them.        *)
(* A result is [found, group]: group is group(1) of UTF8_FILENAME_REGEX    *)
(* and group(2) of ASCII_FILENAME_REGEX.                                   *)
(***************************************************************************)
KW_UTF8 == <<"f","i","l","e","n","a","m","e","*","=","U","T","F","-","8","'","'">>
KW_ASCII == <<"f","i","l","e","n","a","m","e","=">>

NoMatch == [found |-> FALSE, group |-> <<>>]

\* (?:; ?|$) at position i: a ';' there, or the end of the string
FilenameTailAt(s, i) == i = Len(s) + 1 \/ (i <= Len(s) /\ s[i] = ";")

\* [\w%\-\.]
IsUtf8NameChar(c) == IsWordChar(c) \/ c = "%" \/ c = "-" \/ c = "."

\* the end of the greedy run [\w%\-\.]+ starting at k (k - 1: empty run)
Utf8RunEnd(s, k) ==
    CHOOSE e \in (k - 1)..Len(s) :
        /\ \A i \in k..e : IsUtf8NameChar(s[i])
        /\ (e = Len(s) \/ ~IsUtf8NameChar(s[e + 1]))

Utf8MatchAt(s, p) ==
    /\ StartsWithAt(s, p, KW_UTF8)
    /\ LET k == p + Len(KW_UTF8)
           e == Utf8RunEnd(s, k)
       IN  e >= k /\ FilenameTailAt(s, e + 1)

\* re.search(r"filename\*=UTF-8''([\w%\-\.]+)(?:; ?|$)", s)
UTF8_FILENAME_REGEX(s) ==
    IF \E p \in 1..Len(s) : Utf8MatchAt(s, p)
    THEN LET p == CHOOSE q \in 1..Len(s) :
                      Utf8MatchAt(s, q) /\ \A r \in 1..(q - 1) : ~Utf8MatchAt(s, r)
             k == p + Len(KW_UTF8)
         IN  [found |-> TRUE, group |-> SubSeq(s, k, Utf8RunEnd(s, k))]
    ELSE NoMatch

\* the ends e of (.*?[^\\]) starting at k, given the quote q matched by
\* group 1 ("" when group 1 is empty)
AsciiEnds(s, k, q) ==
    {e \in k..Len(s) :
        /\ s[e] # "\\"
        /\ IF q = ""
           THEN FilenameTailAt(s, e + 1)
           ELSE e + 1 <= Len(s) /\ s[e + 1] = q /\ FilenameTailAt(s, e + 2)}

Least(S) == CHOOSE e \in S : \A f \in S : e <= f

\* the match that starts at p: the quote alternative of (["']?) is tried
\* first, the empty one on backtracking; .*? takes the shortest end
AsciiGroupAt(s, p) ==
    LET k == p + Len(KW_ASCII)
        quoted == k <= Len(s) /\ s[k] \in {"\"", "'"}
    IN  IF quoted /\ AsciiEnds(s, k + 1, s[k]) # {}
        THEN SubSeq(s, k + 1, Least(AsciiEnds(s, k + 1, s[k])))
        ELSE SubSeq(s, k, Least(AsciiEnds(s, k, "")))

AsciiMatchAt(s, p) ==
    /\ StartsWithAt(s, p, KW_ASCII)
    /\ LET k == p + Len(KW_ASCII)
       IN  \/ (k <= Len(s) /\ s[k] \in {"\"", "'"} /\ AsciiEnds(s, k + 1, s[k]) # {})
           \/ AsciiEnds(s, k, "") # {}

\* re.search(r"filename=([\"']?)(.*?[^\\])\1(?:; ?|$)", s)
ASCII_FILENAME_REGEX(s) ==
    IF \E p \in 1..Len(s) : AsciiMatchAt(s, p)
    THEN LET p == CHOOSE q \in 1..Len(s) :
                      AsciiMatchAt(s, q) /\ \A r \in 1..(q - 1) : ~AsciiMatchAt(s, r)
         IN  [found |-> TRUE, group |-> AsciiGroupAt(s, p)]
    ELSE NoMatch

(***************************************************************************)
(* urllib.parse.urlparse and ParseResult.geturl, on the characters.         *)
(***************************************************************************)
S_http == <<"h","t","t","p">>
S_https == <<"h","t","t","p","s">>
S_ftp == <<"f","t","p">>

\* the schemes of urllib's uses_params and uses_netloc that a capture holds
uses_params == {<<>>, S_http, S_https, S_ftp}
uses_netloc == {<<>>, S_http, S_https, S_ftp}

IsSchemeChar(c) == IsLetter(c) \/ IsDigit(c) \/ c \in {"+", "-", "."}

\* url.lstrip(_WHATWG_C0_CONTROL_OR_SPACE), on the space character
LStrip(s) ==
    IF \A i \in 1..Len(s) : s[i] = " "
    THEN <<>>
    ELSE Tail_from(s, CHOOSE i \in 1..Len(s) : s[i] # " " /\ \A j \in 1..(i - 1) : s[j] = " ")

\* the removal of the _UNSAFE_URL_BYTES_TO_REMOVE (tab, CR, LF)
RemoveUnsafe(s) == SelectSeq(s, LAMBDA c : c \notin {"\t", "\r", "\n"})

HasScheme(u) ==
    LET i == IndexFrom(u, ":", 1)
    IN  i > 1 /\ IsLetter(u[1]) /\ \A j \in 1..(i - 1) : IsSchemeChar(u[j])

\* _splitnetloc(url, 2): the netloc ends at the first of '/', '?', '#'
NetlocEnd(u) ==
    IF \E i \in 3..Len(u) : u[i] \in {"/", "?", "#"}
    THEN (CHOOSE i \in 3..Len(u) :
              u[i] \in {"/", "?", "#"} /\ \A j \in 3..(i - 1) : u[j] \notin {"/", "?", "#"}) - 1
    ELSE Len(u)

\* _splitparams(url)
SplitParamsAt(u) ==
    IF Contains(u, "/") THEN IndexFrom(u, ";", LastIndex(u, "/")) ELSE IndexFrom(u, ";", 1)

\* urlparse, step by step: each step splits one component off the rest
ParseParams(scheme, netloc, u4, query, fragment) ==
    [scheme |-> scheme,
     netloc |-> netloc,
     path |-> IF scheme \in uses_params /\ SplitParamsAt(u4) > 0
              THEN SubSeq(u4, 1, SplitParamsAt(u4) - 1) ELSE u4,
     params |-> IF scheme \in uses_params /\ SplitParamsAt(u4) > 0
                THEN Tail_from(u4, SplitParamsAt(u4) + 1) ELSE <<>>,
     query |-> query,
     fragment |-> fragment]

ParseQuery(scheme, netloc, u3, fragment) ==
    ParseParams(scheme, netloc,
                IF Contains(u3, "?") THEN SubSeq(u3, 1, IndexFrom(u3, "?", 1) - 1) ELSE u3,
                IF Contains(u3, "?") THEN Tail_from(u3, IndexFrom(u3, "?", 1) + 1) ELSE <<>>,
                fragment)

ParseFragment(scheme, netloc, u2) ==
    ParseQuery(scheme, netloc,
               IF Contains(u2, "#") THEN SubSeq(u2, 1, IndexFrom(u2, "#", 1) - 1) ELSE u2,
               IF Contains(u2, "#") THEN Tail_from(u2, IndexFrom(u2, "#", 1) + 1) ELSE <<>>)

ParseNetloc(scheme, u1) ==
    ParseFragment(scheme,
                  IF StartsWithAt(u1, 1, <<"/", "/">>) THEN SubSeq(u1, 3, NetlocEnd(u1)) ELSE <<>>,
                  IF StartsWithAt(u1, 1, <<"/", "/">>) THEN Tail_from(u1, NetlocEnd(u1) + 1) ELSE u1)

ParseScheme(u0) ==
    ParseNetloc(IF HasScheme(u0)
                THEN [i \in 1..(IndexFrom(u0, ":", 1) - 1) |-> LowerChar(u0[i])]
                ELSE <<>>,
                IF HasScheme(u0) THEN Tail_from(u0, IndexFrom(u0, ":", 1) + 1) ELSE u0)

urlparse(url) == ParseScheme(RemoveUnsafe(LStrip(url)))

\* urlunsplit((scheme, netloc, url, query, fragment))
urlunsplit(scheme, netloc, url, query, fragment) ==
    (IF scheme # <<>> THEN scheme \o <<":">> ELSE <<>>)
    \o (IF netloc # <<>>
           \/ (scheme # <<>> /\ scheme \in uses_netloc /\ ~StartsWithAt(url, 1, <<"/", "/">>))
        THEN <<"/", "/">> \o netloc \o (IF url # <<>> /\ url[1] # "/" THEN <<"/">> ELSE <<>>)
        ELSE <<>>)
    \o url
    \o (IF query # <<>> THEN <<"?">> \o query ELSE <<>>)
    \o (IF fragment # <<>> THEN <<"#">> \o fragment ELSE <<>>)

\* ParseResult.geturl(): urlunparse, which ends in urlunsplit
geturl(p) ==
    urlunsplit(p.scheme, p.netloc,
               IF p.params # <<>> THEN p.path \o <<";">> \o p.params ELSE p.path,
               p.query, p.fragment)

\* os.path.basename
basename(path) == Tail_from(path, LastIndex(path, "/") + 1)

(***************************************************************************)
(* The filename of a download (lines 401-443)                              *)
(***************************************************************************)
MaxFilenameLen == 150

\* one "if len(possible_filename) > 150" of lines 423-437
Shorten(name, parsed_url) ==
    IF Len(name) > MaxFilenameLen THEN geturl(parsed_url) ELSE name

NoFragment(p) == [p EXCEPT !.fragment = <<>>]
NoParams(p) == [p EXCEPT !.params = <<>>]
NoQuery(p) == [p EXCEPT !.query = <<>>]
NoPath(p) == [p EXCEPT !.path = <<>>]

\* lines 423-437 with the query dropped before the params
ShortenAll_QueryFirst(url, requested_url) ==
    Shorten(Shorten(Shorten(Shorten(url,
                                    NoFragment(requested_url)),
                            NoQuery(NoFragment(requested_url))),
                    NoParams(NoQuery(NoFragment(requested_url)))),
            NoPath(NoQuery(NoParams(NoFragment(requested_url)))))

\* lines 423-437 on the URL and its parse; parsed_url loses its components
\* one after the other
ShortenAll(url, requested_url) ==
    Shorten(Shorten(Shorten(Shorten(url,
                                    NoFragment(requested_url)),
                            NoParams(NoFragment(requested_url))),
                    NoQuery(NoParams(NoFragment(requested_url)))),
            NoPath(NoQuery(NoParams(NoFragment(requested_url)))))

\* lines 422-438: the URL, shortened while it is longer than 150 characters
possible_filename(url) == ShortenAll(url, urlparse(url))

\* lines 416-440: no usable Content-Disposition
UrlFilename(url) ==
    LET base == basename(urlparse(url).path)
    IN  IF Contains(base, ".") THEN base ELSE possible_filename(url)

\* lines 407-414: the Content-Disposition value cd
DispositionFilename(cd) ==
    LET m1 == ASCII_FILENAME_REGEX(cd)
        f1 == IF m1.found THEN m1.group ELSE cd
        m2 == UTF8_FILENAME_REGEX(f1)
    IN  IF m2.found THEN m2.group ELSE f1

PFX_UNKNOWN == <<"U","n","k","n","o","w","n","F","i","l","e","n","a","m","e","_">>
CONTENT_DISPOSITION == "Content-Disposition"

\* lines 402-443; response_headers is the dictionary of line 320
ResolveFilename(response_headers, url, sha256) ==
    LET f == IF /\ CONTENT_DISPOSITION \in DOMAIN response_headers
                /\ response_headers[CONTENT_DISPOSITION] # <<>>
             THEN DispositionFilename(response_headers[CONTENT_DISPOSITION])
             ELSE UrlFilename(url)
    IN  IF f = <<>> THEN PFX_UNKNOWN \o SubSeq(sha256, 1, 8) ELSE f

(***************************************************************************)
(* Python dictionaries are functions on their keys.                        *)
(***************************************************************************)
Pop(d, k) == [x \in DOMAIN d \ {k} |-> d[x]]
Put(d, k, v) == [x \in DOMAIN d \cup {k} |-> IF x = k THEN v ELSE d[x]]

\* line 320: {header["name"]: header["value"] for header in headers}; the
\* last header of a name wins
HeaderDict(headers) ==
    [n \in {headers[i].name : i \in 1..Len(headers)} |->
        headers[CHOOSE i \in 1..Len(headers) :
                    headers[i].name = n /\ \A j \in (i + 1)..Len(headers) : headers[j].name # n].value]

(***************************************************************************)
(* The refresh header (lines 348-365)                                      *)
(***************************************************************************)
REDIRECT_STATUSES == {301, 302, 303, 307, 308}
MaxRefreshDelay == 15
KW_URL == <<"u","r","l","=">>
REFRESH == "refresh"
NOT_AVAILABLE == "Not Available"

\* str.strip() on the space character
Strip(s) ==
    IF \A i \in 1..Len(s) : s[i] = " "
    THEN <<>>
    ELSE LET a == CHOOSE i \in 1..Len(s) : s[i] # " " /\ \A j \in 1..(i - 1) : s[j] = " "
             b == CHOOSE i \in 1..Len(s) : s[i] # " " /\ \A j \in (i + 1)..Len(s) : s[j] = " "
         IN  SubSeq(s, a, b)

RECURSIVE DecimalValue(_)
DecimalValue(ds) ==
    IF ds = <<>> THEN 0
    ELSE 10 * DecimalValue(SubSeq(ds, 1, Len(ds) - 1)) + DigitVal(ds[Len(ds)])

\* int(s): [ok |-> FALSE] stands for ValueError
ParseInt(s) ==
    LET t == Strip(s)
        signed == t # <<>> /\ t[1] \in {"+", "-"}
        body == IF signed THEN Tail_from(t, 2) ELSE t
        wellFormed ==
            /\ body # <<>>
            /\ \A i \in 1..Len(body) : IsDigit(body[i]) \/ body[i] = "_"
            /\ IsDigit(body[1]) /\ IsDigit(body[Len(body)])
            /\ \A i \in 1..(Len(body) - 1) : ~(body[i] = "_" /\ body[i + 1] = "_")
        v == DecimalValue(SelectSeq(body, IsDigit))
    IN  IF wellFormed
        THEN [ok |-> TRUE, val |-> IF signed /\ t[1] = "-" THEN 0 - v ELSE v]
        ELSE [ok |-> FALSE, val |-> 0]

\* value.split(";", 1)
SplitRefresh(value) ==
    LET i == IndexFrom(value, ";", 1)
    IN  IF i = 0 THEN <<value>> ELSE <<SubSeq(value, 1, i - 1), Tail_from(value, i + 1)>>

\* line 351 with "<" for "<="
RefreshFires_Strict(value) ==
    /\ ParseInt(SplitRefresh(value)[1]).ok
    /\ ParseInt(SplitRefresh(value)[1]).val < MaxRefreshDelay
    /\ Len(SplitRefresh(value)) = 2
    /\ StartsWithAt(SplitRefresh(value)[2], 1, KW_URL)

\* lines 350-351 without the test of "url="
RefreshFires_NoUrlCheck(value) ==
    /\ ParseInt(SplitRefresh(value)[1]).ok
    /\ ParseInt(SplitRefresh(value)[1]).val <= MaxRefreshDelay
    /\ Len(SplitRefresh(value)) = 2

\* lines 350-351 under the try of line 349: any exception (ValueError of
\* int, IndexError of refresh[1]) means no redirect
RefreshFires(value) ==
    LET refresh == SplitRefresh(value)
        n == ParseInt(refresh[1])
    IN  /\ n.ok
        /\ n.val <= MaxRefreshDelay
        /\ Len(refresh) = 2
        /\ StartsWithAt(refresh[2], 1, KW_URL)

\* line 359: refresh[1][4:]
RefreshTarget(value) == Tail_from(SplitRefresh(value)[2], Len(KW_URL) + 1)

\* line 331 with 301 left out of the list
IsHttpRedirect_No301(entry) == entry.response.status \in {302, 303, 307, 308}

\* line 331
IsHttpRedirect(entry) == entry.response.status \in REDIRECT_STATUSES

redirecting_ip(entry) ==
    IF "serverIPAddress" \in DOMAIN entry THEN entry.serverIPAddress ELSE NOT_AVAILABLE

\* lines 332-345
StatusRedirect(entry) ==
    [status |-> entry.response.status,
     redirecting_url |-> entry.request.url,
     redirecting_ip |-> redirecting_ip(entry),
     redirecting_to |-> IF "redirectURL" \in DOMAIN entry.response
                        THEN entry.response.redirectURL
                        ELSE NOT_AVAILABLE]

\* lines 352-361
RefreshRedirect(entry, response_headers) ==
    [status |-> entry.response.status,
     redirecting_url |-> entry.request.url,
     redirecting_ip |-> redirecting_ip(entry),
     redirecting_to |-> RefreshTarget(response_headers[REFRESH])]

HasRefreshRedirect(response_headers) ==
    REFRESH \in DOMAIN response_headers /\ RefreshFires(response_headers[REFRESH])

\* lines 331-365: the redirect list after one entry
RedirectsAfter(redirects, entry) ==
    LET response_headers == HeaderDict(entry.response.headers)
        r1 == IF IsHttpRedirect(entry) THEN Append(redirects, StatusRedirect(entry)) ELSE redirects
    IN  IF HasRefreshRedirect(response_headers)
        THEN Append(r1, RefreshRedirect(entry, response_headers))
        ELSE r1

(***************************************************************************)
(* Response bodies, and the identification of a file (Identify.fileinfo)   *)
(***************************************************************************)
\* base64.b64decode on the body texts of the captures: the texts outside the
\* table raise binascii.Error
B64Table == [t \in {"aGk=", "Ynll"} |-> IF t = "aGk=" THEN "hi" ELSE "bye"]

\* lines 370-379
Decode(content, content_text) ==
    IF "encoding" \in DOMAIN content /\ content.encoding = "base64"
       /\ content_text \in DOMAIN B64Table
    THEN B64Table[content_text]
    ELSE content_text

\* the digests are those of hashlib; a sha256 is cut to its first 12 digits
MD5(bytes) ==
    CASE bytes = "hi"  -> "49f68a5c8493ec2c0bf489821c21fc3b"
      [] bytes = "bye" -> "bfa99df33b137bc8fb5f5407d7e58da8"
      [] bytes = "x"   -> "9dd4e461268c8034f5c8564e155c67a6"
      [] bytes = ""    -> "d41d8cd98f00b204e9800998ecf8427e"

SHA256(bytes) ==
    CASE bytes = "hi"  -> <<"8","f","4","3","4","3","4","6","6","4","8","f">>
      [] bytes = "bye" -> <<"b","4","9","f","4","2","5","a","7","e","1","f">>
      [] bytes = "x"   -> <<"2","d","7","1","1","6","4","2","b","7","2","6">>
      [] bytes = ""    -> <<"e","3","b","0","c","4","4","2","9","8","f","c">>

TypeOf(bytes) ==
    CASE bytes = "hi"  -> "text/plain"
      [] bytes = "bye" -> "executable/windows/pe32"
      [] bytes = "x"   -> "image/png"
      [] bytes = ""    -> "empty"

ByteLen(bytes) ==
    CASE bytes = "hi" -> 2 [] bytes = "bye" -> 3 [] bytes = "x" -> 1 [] bytes = "" -> 0

\* self.identify.fileinfo(path, ...) of the file holding bytes
fileinfo_of(bytes) ==
    [md5 |-> MD5(bytes), sha256 |-> SHA256(bytes), size |-> ByteLen(bytes), type |-> TypeOf(bytes)]

(***************************************************************************)
(* The captures (session.har), the results.json and the request parameters *)
(***************************************************************************)
MaxEntries == 3

U1 == <<"h","t","t","p",":","/","/","h","/">>
U2 == <<"h","t","t","p",":","/","/","h","/","a",".","b">>
U3 == <<"h","t","t","p",":","/","/","g","/","d","/">>

R_10 == <<"1","0",";","u","r","l","=","/","n","e","x","t">>
R_30 == <<"3","0",";","u","r","l","=","/","n","e","x","t">>
R_15 == <<"1","5",";","u","r","l","=","/","b">>
R_16 == <<"1","6",";","u","r","l","=","/","b">>
T_next == <<"/","n","e","x","t">>
T_b == <<"/","b">>

CD_AsciiQuoted == <<"f","i","l","e","n","a","m","e","=","\"","m","y"," ","f",".","t","x","t","\"">>

Header(name, value) == [name |-> name, value |-> value]

Entry(url, status, headers, content) ==
    [request |-> [url |-> url, method |-> "GET", headers |-> <<>>],
     response |-> [status |-> status, headers |-> headers, content |-> content]]

WithError(entry, message) == [entry EXCEPT !.response = Put(@, "_errorMessage", message)]
WithRedirectURL(entry, url) == [entry EXCEPT !.response = Put(@, "redirectURL", url)]
WithIP(entry, ip) == Put(entry, "serverIPAddress", ip)

\* the requested page
E_page == Entry(U1, 200, <<>>, [size |-> 2, text |-> "hi", mimeType |-> "text/html"])
\* the same bytes served base64-encoded by another URL, with a file name
E_copy ==
    Entry(U2, 200, <<Header(CONTENT_DISPOSITION, CD_AsciiQuoted)>>,
          [size |-> 4, text |-> "aGk=", encoding |-> "base64", mimeType |-> "text/plain"])
\* a 302 that also carries a short refresh; a body of size zero
E_moved ==
    WithIP(WithRedirectURL(Entry(U3, 302, <<Header(REFRESH, R_10)>>,
                                 [size |-> 0, mimeType |-> ""]), U1), "10.0.0.1")
\* a 301 without redirectURL, a long refresh, no size, a transport error
E_gone ==
    WithError(Entry(U1, 301, <<Header(REFRESH, R_30)>>, [mimeType |-> ""]), "net::ERR_ABORTED")
\* a 200 with two refresh headers (the last one wins) serving an executable
E_exe ==
    Entry(U2, 200, <<Header(REFRESH, R_30), Header(REFRESH, R_15)>>,
          [size |-> 3, text |-> "bye", mimeType |-> "application/octet-stream"])
\* a declared size without a body text
E_notext ==
    WithError(Entry(U3, 307, <<Header(REFRESH, R_10)>>, [size |-> 5, mimeType |-> "text/html"]),
              "net::ERR_FAILED")
\* a body without a mimeType
E_nomime == Entry(U3, 200, <<>>, [size |-> 1, text |-> "x"])
\* an image with a refresh just over the limit
E_img == Entry(U3, 200, <<Header(REFRESH, R_16)>>, [size |-> 1, text |-> "x", mimeType |-> "image/png"])

EntryPool == {E_page, E_copy, E_moved, E_gone, E_exe, E_notext, E_nomime, E_img}

\* the sequences over S of length at most n
SeqsUpTo(S, n) == UNION {[1..k -> S] : k \in 0..n}

\* line 231 and line 240: [requested_url] or [requested_url, actual_url]
TargetChoices == {<<U1>>, <<U1, U2>>}

\* a filetype pattern is the set of the types that re.match accepts
ParamChoices ==
    {[regex_extract_filetype |-> {"executable/windows/pe32"},
      regex_supplementary_filetype |-> {"image/png"},
      extract_unmatched_filetype |-> b] : b \in BOOLEAN}

\* the digests that the safelist interface of add_extracted rejects
Safelisted == {SHA256("x")}

(***************************************************************************)
(* Captures of one entry, for the file name of its download: the           *)
(* Content-Disposition values and the URLs that reach each branch of lines *)
(* 402-443                                                                 *)
(***************************************************************************)
CD_BothAsciiFirst == <<"f","i","l","e","n","a","m","e","=","\"","a",".","t","x","t","\"",";"," ","f","i","l","e","n","a","m","e","*","=","U","T","F","-","8","'","'","b",".","t","x","t">>
CD_BothUtf8First == <<"f","i","l","e","n","a","m","e","*","=","U","T","F","-","8","'","'","b",".","t","x","t",";"," ","f","i","l","e","n","a","m","e","=","a",".","t","x","t">>
CD_Utf8Only == <<"f","i","l","e","n","a","m","e","*","=","U","T","F","-","8","'","'","c","%","C","3",".","t","x","t">>
CD_AsciiBare == <<"a","t","t","a","c","h","m","e","n","t",";"," ","f","i","l","e","n","a","m","e","=","a",";","b">>
CD_Neither == <<"i","n","l","i","n","e">>
CD_Backslash == <<"f","i","l","e","n","a","m","e","=","\"","a","\\">>

\* no Content-Disposition, an empty one, or one of the values
DispositionHeaders ==
    {<<>>}
    \cup {<<Header(CONTENT_DISPOSITION, v)>> :
            v \in {<<>>, CD_BothAsciiFirst, CD_BothUtf8First, CD_Utf8Only, CD_AsciiQuoted,
                   CD_AsciiBare, CD_Neither, CD_Backslash}}

U_prefix == <<"h","t","t","p",":","/","/","h","/","p">>
U_tail == <<";","x","?","q","#","f">>
\* URLs longer than 150 characters: by the host, the path, the params, the
\* query, the fragment
U_LongHost == <<"h","t","t","p",":","/","/">> \o Rep("h", 150) \o <<"/","p">> \o U_tail
U_LongPath == U_prefix \o Rep("p", 150) \o U_tail
U_LongParams == U_prefix \o <<";">> \o Rep("x", 150) \o <<"?","q","#","f">>
U_LongQuery == U_prefix \o <<";","x","?">> \o Rep("q", 150) \o <<"#","f">>
U_LongFragment == U_prefix \o <<";","x","?","q","#">> \o Rep("f", 150)
U_Empty == <<>>

FilenameUrls ==
    {U1, U2, U_Empty, U_LongHost, U_LongPath, U_LongParams, U_LongQuery, U_LongFragment}

FilenameEntries ==
    {Entry(u, 200, h, [size |-> 2, text |-> "hi", mimeType |-> "text/html"]) :
        u \in FilenameUrls, h \in DispositionHeaders}
    \cup {E_notext}

(***************************************************************************)
(* detect_open_directory (lines 45-85).  A soup is what BeautifulSoup made *)
(* of a page: its title tag, the string of that tag (None for an empty     *)
(* title) and the href of each anchor that has one.                        *)
(***************************************************************************)
NoTitle == [tag |-> FALSE, has_string |-> FALSE, string |-> <<>>]
TitleNoString == [tag |-> TRUE, has_string |-> FALSE, string |-> <<>>]
Title(string) == [tag |-> TRUE, has_string |-> TRUE, string |-> string]
Soup(title, anchors) == [title |-> title, anchors |-> anchors]

INDEX_OF == <<"i","n","d","e","x"," ","o","f">>
SCHEME_SEP == <<":","/","/">>

\* sub in s
ContainsSeq(s, sub) ==
    \E i \in 1..(Len(s) - Len(sub) + 1) : SubSeq(s, i, i + Len(sub) - 1) = sub

\* str.lower
Lower(s) == [i \in 1..Len(s) |-> LowerChar(s[i])]

\* line 46: soup.title.string is None, .lower() raises AttributeError
TitleRaises(soup) == soup.title.tag /\ ~soup.title.has_string

\* line 46-47
TitleReturns(soup) ==
    ~soup.title.tag \/ ~ContainsSeq(Lower(soup.title.string), INDEX_OF)

\* line 54: a["href"][0] of an empty href raises IndexError
LoopRaises(anchors) == \E i \in 1..Len(anchors) : anchors[i] = <<>>

\* a["href"][:10]
Take10(href) == SubSeq(href, 1, IF Len(href) < 10 THEN Len(href) ELSE 10)

\* line 52
IsExternal(href) == ContainsSeq(Take10(href), SCHEME_SEP) /\ href[1] # "."

\* line 54
IsOrdering(href) == href[1] = "?"

\* lines 57-60: a["href"] in request.task.fileinfo.uri_info.uri
IsParent(href, page_uri) == href[1] = "/" /\ ContainsSeq(page_uri, href)

Skipped(href, page_uri) ==
    IsExternal(href) \/ IsOrdering(href) \/ IsParent(href, page_uri)

EndsWithSlash(href) == href[Len(href)] = "/"

\* lines 62-65
open_directory_folders(anchors, page_uri) ==
    SelectSeq(anchors, LAMBDA href : ~Skipped(href, page_uri) /\ EndsWithSlash(href))

open_directory_links(anchors, page_uri) ==
    SelectSeq(anchors, LAMBDA href : ~Skipped(href, page_uri) /\ ~EndsWithSlash(href))

RECURSIVE RStripSlash(_)
\* uri.rstrip('/')
RStripSlash(s) ==
    IF s # <<>> /\ s[Len(s)] = "/" THEN RStripSlash(SubSeq(s, 1, Len(s) - 1)) ELSE s

RECURSIVE LStripDotSlash(_)
\* link.lstrip('./'): every leading character that is "." or "/"
LStripDotSlash(link) ==
    IF link # <<>> /\ link[1] \in {".", "/"} THEN LStripDotSlash(Tail(link)) ELSE link

\* lines 74 and 83
FullLink(page_uri, link) == RStripSlash(page_uri) \o <<"/">> \o LStripDotSlash(link)

FullLinks(page_uri, links) == [i \in 1..Len(links) |-> FullLink(page_uri, links[i])]

\* lines 70 and 79
Heading(one, many, links) ==
    IF links = <<>> THEN "" ELSE IF Len(links) > 1 THEN many ELSE one

\* lines 68-85: the section, its lines and its network.static.uri tags
OpenDirectorySection(links, folders, page_uri) ==
    [title_text |-> "Open Directory Detected",
     open_directory_links |-> links,
     open_directory_folders |-> folders,
     file_heading |-> Heading("File:", "Files:", links),
     file_lines |-> FullLinks(page_uri, links),
     folder_heading |-> Heading("Folder:", "Folders:", folders),
     folder_lines |-> FullLinks(page_uri, folders),
     tags |-> FullLinks(page_uri, links) \o FullLinks(page_uri, folders)]

\* detect_open_directory raises
DetectRaises(soup) ==
    TitleRaises(soup) \/ (~TitleReturns(soup) /\ LoopRaises(soup.anchors))

\* the sections detect_open_directory adds to request.result: none when it
\* raises (the section is made after the loop) or returns at line 47
detect_open_directory(page_uri, soup) ==
    IF TitleRaises(soup) THEN <<>>
    ELSE IF TitleReturns(soup) THEN <<>>
    ELSE IF LoopRaises(soup.anchors) THEN <<>>
    ELSE IF open_directory_links(soup.anchors, page_uri) = <<>>
            /\ open_directory_folders(soup.anchors, page_uri) = <<>>
    THEN <<>>
    ELSE <<OpenDirectorySection(open_directory_links(soup.anchors, page_uri),
                                open_directory_folders(soup.anchors, page_uri), page_uri)>>

H_file == <<"a",".","t","x","t">>
H_folder == <<"s","u","b","/">>
H_ordering == <<"?","C","=","N">>
H_external == <<"h","t","t","p",":","/","/","x","/","y">>
H_self == <<"/","f","i","l","e","s","/">>
H_root == <<"/">>
H_host == <<"/","h","/">>
H_rootfile == <<"/","o","t","h","e","r">>
H_empty == <<>>
H_dotslash == <<".","/","b">>
H_updir == <<".",".","/","u","p","/">>
H_hidden == <<".","h","i","d","d","e","n">>

T_IndexOf == <<"I","n","d","e","x"," ","o","f"," ","/","f","i","l","e","s">>
T_INDEX == <<"I","N","D","E","X"," ","O","F"," ","/">>
T_Home == <<"H","o","m","e">>

\* what BeautifulSoup makes of the bodies of the captures: the page "hi" is
\* a listing, the others have no title
ParsedDefault ==
    [bytes \in {"hi", "bye", "x", ""} |->
        IF bytes = "hi" THEN Soup(Title(T_IndexOf), <<H_file, H_folder, H_ordering>>)
        ELSE Soup(NoTitle, <<>>)]

(***************************************************************************)
(* State of one GET analysis: the choice of the output folder (lines       *)
(* 175-213), then the pass from the reading of session.har (line 311)      *)
(***************************************************************************)
VARIABLES
    pc,                   \* "locate", "entries", "downloads", "done" or "failed" (an exception left execute)
    output_dir,           \* os.listdir of kangooroo_config["output_folder"]
    with_results,         \* the folders of output_dir that hold a results.json
    output_folder,        \* line 177 and line 204
    url_hash_mismatch,    \* the section "URL hash mismatch" was added to the result
    raised,               \* the message of the Exception of lines 183-213, "" while none
    uri,                  \* request.task.fileinfo.uri_info.uri
    parsed,               \* what BeautifulSoup(data) of line 498 gives for the bytes of a file
    open_directory,       \* the sections "Open Directory Detected" added to the result
    task,                 \* tag-driven downloader: metadata, depth, tags and parameter of the request
    urls,                 \* tag-driven downloader: sorted(urls, key=lambda x: x[1])
    url_idx,              \* tag-driven downloader: the position of the loop of line 55
    visited_urls,         \* tag-driven downloader: temp_submission_data['visited_urls']
    fetched,              \* tag-driven downloader: the calls of fetch_uri and their outcome
    session_har,          \* the entries of session.har, as Kangooroo wrote them
    har_content,          \* har_content["log"]["entries"], edited in place
    idx,                  \* the entry the loop of line 317 is at
    target_urls,          \* lines 231-240
    params,               \* the request parameters
    redirects,            \* line 315
    downloads,            \* line 314: md5 -> download
    download_keys,        \* the keys of downloads in insertion order
    response_errors,      \* line 316
    working_directory,    \* the temporary files written by line 383, in order
    identify_calls,       \* the paths given to self.identify.fileinfo
    ontology,             \* the number of result parts given to self.ontology
    modified_session_har, \* the file written by line 459
    http_result_redirects,\* http_result["redirects"]
    redirect_rows,        \* the rows of the "Redirections" table
    extracted,            \* the calls of request.add_extracted
    supplementary,        \* the calls of request.add_supplementary
    content_rows,         \* the rows of "Downloaded Content"
    safelisted_rows,      \* the rows of "Safelisted Content"
    error_lines,          \* the lines of "Responses Error"
    download_idx          \* the position of the loop of line 481 in downloads.values()

vars == <<pc, session_har, har_content, idx, target_urls, params, redirects, downloads,
          download_keys, response_errors, working_directory, identify_calls, ontology,
          modified_session_har, http_result_redirects, redirect_rows, extracted,
          supplementary, content_rows, safelisted_rows, error_lines, download_idx,
          output_dir, with_results, output_folder, url_hash_mismatch, raised,
          uri, parsed, open_directory, task, urls, url_idx, visited_urls, fetched>>

tagVars == <<task, urls, url_idx, visited_urls, fetched>>
locateVars == <<output_dir, with_results, output_folder, url_hash_mismatch, raised>>
passVars == <<redirects, downloads, download_keys, response_errors, working_directory,
              identify_calls, ontology, har_content, idx>>
reportVars == <<modified_session_har, http_result_redirects, redirect_rows, extracted,
                supplementary, content_rows, safelisted_rows, error_lines, download_idx,
                open_directory>>
inputVars == <<session_har, target_urls, params, uri, parsed>>

TempPath(n) == <<"tmp", n>>
MODIFIED_HAR == <<"modified_session.har">>

\* line 175: hashlib.md5(uri).hexdigest(), the folder Kangooroo writes for
\* the URL it was asked, and the folders it writes for other URLs
URL_MD5 == "md5(uri)"
OTHER_MD5 == {"md5(other)", "md5(another)"}

\* lines 311-316 on one of the captures
FreshOn(captures, targets, prms) ==
    /\ session_har \in captures
    /\ har_content = session_har
    /\ idx = 1
    /\ target_urls \in targets
    /\ params \in prms
    /\ redirects = <<>>
    /\ downloads = <<>>
    /\ download_keys = <<>>
    /\ response_errors = <<>>
    /\ working_directory = <<>>
    /\ identify_calls = <<>>
    /\ ontology = 0
    /\ modified_session_har = <<>>
    /\ http_result_redirects = <<>>
    /\ redirect_rows = <<>>
    /\ extracted = <<>>
    /\ supplementary = <<>>
    /\ content_rows = <<>>
    /\ safelisted_rows = <<>>
    /\ error_lines = <<>>
    /\ download_idx = 1
    /\ open_directory = <<>>

\* the tag-driven downloader of src/urldownloader/urldownloader.py is another
\* service: it is not running
TagsIdle ==
    /\ task = [submitted_url |-> "", depth |-> 0, static |-> <<>>, dynamic |-> <<>>,
               minimum_maliciousness |-> 0]
    /\ urls = <<>>
    /\ url_idx = 1
    /\ visited_urls = <<>>
    /\ fetched = <<>>

\* the request is for U1 and the pages parse as ParsedDefault
Fresh(captures) ==
    /\ TagsIdle
    /\ uri = U1
    /\ parsed = ParsedDefault
    /\ FreshOn(captures, TargetChoices, ParamChoices)

\* the folder of the requested URL was there with its results.json
Located_Requested ==
    /\ output_dir = {URL_MD5}
    /\ with_results = {URL_MD5}
    /\ output_folder = URL_MD5
    /\ url_hash_mismatch = FALSE
    /\ raised = ""

\* the state when the loop of line 317 starts: the folder of the requested
\* URL was there with its results.json
InitWith(captures) ==
    /\ pc = "entries"
    /\ Located_Requested
    /\ Fresh(captures)

Init == InitWith(SeqsUpTo(EntryPool, MaxEntries))

(***************************************************************************)
(* One entry of the capture (lines 317-454)                                *)
(***************************************************************************)
\* line 368 with "> 1" for "!= 0"
HasContent_SizeOverOne(content) == "size" \in DOMAIN content /\ content.size > 1

\* line 368
HasContent(content) == "size" \in DOMAIN content /\ content.size # 0

\* lines 369-379: the bytes written to the temporary file
ContentBytes(content) == Decode(Pop(content, "text"), content.text)

\* line 398
IsNewDownload(dl, content_md5) == content_md5 \notin DOMAIN dl

\* lines 398-445: the download up to the read of mimeType
DownloadUpToUrl(dl, entry, path, fileinfo) ==
    LET unit0 == IF IsNewDownload(dl, fileinfo.md5) THEN [path |-> path] ELSE dl[fileinfo.md5]
        filename == ResolveFilename(HeaderDict(entry.response.headers), entry.request.url,
                                    fileinfo.sha256)
    IN  Put(Put(Put(unit0, "filename", filename), "size", entry.response.content.size),
            "url", entry.request.url)

\* lines 398-447
DownloadAfter(dl, entry, path, fileinfo) ==
    Put(Put(DownloadUpToUrl(dl, entry, path, fileinfo),
            "mimeType", entry.response.content.mimeType), "fileinfo", fileinfo)

\* the keys of the dictionary after downloads[content_md5] = ... of line 399
KeysAfter(keys, dl, content_md5) ==
    IF IsNewDownload(dl, content_md5) THEN Append(keys, content_md5) ELSE keys

\* lines 369 and 388 without the pop of "text"
EntryReplaced_KeepText(entry, sha256) ==
    [entry EXCEPT !.response.content = Put(@, "_replaced", sha256)]

\* lines 369 and 388: the entry of har_content after its body was persisted
EntryReplaced(entry, sha256) ==
    [entry EXCEPT !.response.content = Put(Pop(@, "text"), "_replaced", sha256)]

\* lines 449-450
ErrorsAfter(errors, entry) ==
    IF "_errorMessage" \in DOMAIN entry.response
    THEN Append(errors, <<entry.request.url, entry.response["_errorMessage"]>>)
    ELSE errors

\* an iteration of the loop that raises nothing
ProcessEntry ==
    /\ pc = "entries"
    /\ idx <= Len(har_content)
    /\ LET entry == har_content[idx]
           content == entry.response.content
       IN  /\ HasContent(content) => {"text", "mimeType"} \subseteq DOMAIN content
           /\ redirects' = RedirectsAfter(redirects, entry)
           /\ IF HasContent(content)
              THEN LET bytes == ContentBytes(content)
                       path == TempPath(Len(working_directory) + 1)
                       fileinfo == fileinfo_of(bytes)
                   IN  /\ working_directory' = Append(working_directory, bytes)
                       /\ identify_calls' = Append(identify_calls, path)
                       /\ har_content' = [har_content EXCEPT ![idx] = EntryReplaced(entry, fileinfo.sha256)]
                       /\ downloads' = Put(downloads, fileinfo.md5,
                                           DownloadAfter(downloads, entry, path, fileinfo))
                       /\ download_keys' = KeysAfter(download_keys, downloads, fileinfo.md5)
              ELSE UNCHANGED <<working_directory, identify_calls, har_content, downloads,
                               download_keys>>
           /\ response_errors' = ErrorsAfter(response_errors, entry)
           /\ ontology' = ontology + 1
           /\ idx' = idx + 1
    /\ UNCHANGED <<pc, inputVars, locateVars, tagVars, reportVars>>

\* an iteration that raises KeyError: entry["response"]["content"].pop("text")
\* at line 369, or entry["response"]["content"]["mimeType"] at line 446; the
\* exception leaves execute
ProcessEntryKeyError ==
    /\ pc = "entries"
    /\ idx <= Len(har_content)
    /\ LET entry == har_content[idx]
           content == entry.response.content
       IN  /\ HasContent(content)
           /\ ~({"text", "mimeType"} \subseteq DOMAIN content)
           /\ redirects' = RedirectsAfter(redirects, entry)
           /\ IF "text" \notin DOMAIN content
              THEN UNCHANGED <<working_directory, identify_calls, har_content, downloads,
                               download_keys>>
              ELSE LET bytes == ContentBytes(content)
                       path == TempPath(Len(working_directory) + 1)
                       fileinfo == fileinfo_of(bytes)
                   IN  /\ working_directory' = Append(working_directory, bytes)
                       /\ identify_calls' = Append(identify_calls, path)
                       /\ har_content' = [har_content EXCEPT ![idx] = EntryReplaced(entry, fileinfo.sha256)]
                       /\ downloads' = Put(downloads, fileinfo.md5,
                                           DownloadUpToUrl(downloads, entry, path, fileinfo))
                       /\ download_keys' = KeysAfter(download_keys, downloads, fileinfo.md5)
    /\ pc' = "failed"
    /\ UNCHANGED <<idx, response_errors, ontology, inputVars, locateVars, tagVars, reportVars>>

(***************************************************************************)
(* After the loop (lines 456-538)                                          *)
(***************************************************************************)
\* lines 470-472
FromTo(redirect) == [from_url |-> redirect.redirecting_url, to_url |-> redirect.redirecting_to]

\* lines 456-476: the rewritten capture, the redirect table, the ontology
WriteReport ==
    /\ pc = "entries"
    /\ idx > Len(har_content)
    /\ modified_session_har' = har_content
    /\ supplementary' = Append(supplementary,
                               [path |-> MODIFIED_HAR, name |-> "session.har",
                                description |-> "Complete session log"])
    /\ redirect_rows' = redirects
    /\ http_result_redirects' = [i \in 1..Len(redirects) |-> FromTo(redirects[i])]
    /\ ontology' = ontology + 2
    /\ pc' = "downloads"
    /\ UNCHANGED <<inputVars, locateVars, tagVars, redirects, downloads, download_keys, response_errors,
                   working_directory, identify_calls, har_content, idx, extracted,
                   content_rows, safelisted_rows, error_lines, download_idx, open_directory>>

\* re.match(pattern, filetype)
re_match(pattern, filetype) == filetype \in pattern

\* lines 485-493 without "or len(downloads) == 1"
ShouldExtract_NoSingle(download_params, dl, targets, prm) ==
    \/ \E i \in 1..Len(targets) : targets[i] = download_params.url
    \/ re_match(prm.regex_extract_filetype, download_params.fileinfo.type)
    \/ /\ prm.extract_unmatched_filetype
       /\ ~re_match(prm.regex_supplementary_filetype, download_params.fileinfo.type)

\* lines 485-493
ShouldExtract(download_params, dl, targets, prm) ==
    \/ \E i \in 1..Len(targets) : targets[i] = download_params.url
    \/ Cardinality(DOMAIN dl) = 1
    \/ re_match(prm.regex_extract_filetype, download_params.fileinfo.type)
    \/ /\ prm.extract_unmatched_filetype
       /\ ~re_match(prm.regex_supplementary_filetype, download_params.fileinfo.type)

\* download_params["url"] or "Unknown URL"
UrlOrUnknown(url) == IF url = <<>> THEN <<"Unknown URL">> ELSE url

FileCall(download_params) ==
    [path |-> download_params.path, name |-> download_params.filename,
     description |-> UrlOrUnknown(download_params.url)]

\* lines 519-527
ContentRow(download_params) ==
    [Filename |-> download_params.filename, Size |-> download_params.size,
     mimeType |-> download_params.mimeType, url |-> download_params.url,
     SHA256 |-> download_params.fileinfo.sha256]

\* line 494: download_params["url"] in target_urls
IsTargetUrl(url, targets) == \E i \in 1..Len(targets) : targets[i] = url

\* lines 481-528: one download of downloads.values(); the exceptions of
\* lines 495-499 are swallowed at line 500
ClassifyDownload ==
    /\ pc = "downloads"
    /\ download_idx <= Len(download_keys)
    /\ LET download_params == downloads[download_keys[download_idx]]
           data == working_directory[download_params.path[2]]
           added == IF ShouldExtract(download_params, downloads, target_urls, params)
                    THEN download_params.fileinfo.sha256 \notin Safelisted
                    ELSE TRUE
       IN  /\ IF ShouldExtract(download_params, downloads, target_urls, params)
              THEN /\ extracted' = Append(extracted, FileCall(download_params))
                   /\ open_directory' =
                         IF IsTargetUrl(download_params.url, target_urls)
                         THEN open_directory \o detect_open_directory(uri, parsed[data])
                         ELSE open_directory
                   /\ UNCHANGED supplementary
              ELSE /\ supplementary' = Append(supplementary, FileCall(download_params))
                   /\ UNCHANGED <<extracted, open_directory>>
           /\ IF added
              THEN /\ content_rows' = Append(content_rows, ContentRow(download_params))
                   /\ UNCHANGED safelisted_rows
              ELSE /\ safelisted_rows' = Append(safelisted_rows, ContentRow(download_params))
                   /\ UNCHANGED content_rows
    /\ download_idx' = download_idx + 1
    /\ UNCHANGED <<pc, inputVars, locateVars, tagVars, passVars, modified_session_har, http_result_redirects,
                   redirect_rows, error_lines>>

\* lines 530-538: the tables join the result, the errors are listed
FinishReport ==
    /\ pc = "downloads"
    /\ download_idx > Len(download_keys)
    /\ error_lines' = response_errors
    /\ pc' = "done"
    /\ UNCHANGED <<inputVars, locateVars, tagVars, passVars, modified_session_har, http_result_redirects,
                   redirect_rows, extracted, supplementary, content_rows, safelisted_rows,
                   download_idx, open_directory>>

Next ==
    \/ ProcessEntry
    \/ ProcessEntryKeyError
    \/ WriteReport
    \/ ClassifyDownload
    \/ FinishReport

Spec == Init /\ [][Next]_vars

\* the same analysis on the captures of one entry
InitFilename == InitWith({<<e>> : e \in FilenameEntries})

SpecFilename == InitFilename /\ [][Next]_vars

(***************************************************************************)
(* Properties.  The entries before idx have been processed; a pass that    *)
(* raised (pc = "failed") produced no result.                              *)
(***************************************************************************)
Processed == 1..(idx - 1)
PassAlive == pc \in {"entries", "downloads", "done"}

\* a transaction with a non-zero-size body
Served(entry) ==
    "size" \in DOMAIN entry.response.content /\ entry.response.content.size # 0

\* the MD5 of the body a transaction served
BodyMd5(entry) == MD5(ContentBytes(entry.response.content))

ServedHashes == {BodyMd5(session_har[j]) : j \in {i \in Processed : Served(session_har[i])}}

\* the first transaction that served the body of hash h
FirstServing(h) ==
    CHOOSE j \in Processed :
        /\ Served(session_har[j]) /\ BodyMd5(session_har[j]) = h
        /\ \A k \in 1..(j - 1) : ~(Served(session_har[k]) /\ BodyMd5(session_har[k]) = h)

RECURSIVE IsSubseq(_, _)
\* a is b with some elements left out
IsSubseq(a, b) ==
    IF a = <<>> THEN TRUE
    ELSE IF b = <<>> THEN FALSE
    ELSE IF a[1] = b[1] THEN IsSubseq(Tail(a), Tail(b))
    ELSE IsSubseq(a, Tail(b))

\* C1: the URL of a download is the request URL of the first transaction
\* that served its bytes; a later transaction serving the same bytes leaves
\* it unchanged.
C1_FirstSeenUrlWins ==
    PassAlive =>
        \A h \in DOMAIN downloads :
            downloads[h].url = session_har[FirstServing(h)].request.url

\* C2: each distinct body is written to a file and identified exactly once:
\* there are as many files, and as many identify calls, as distinct hashes.
C2_PersistedAndIdentifiedOnce ==
    PassAlive =>
        /\ Len(working_directory) = Cardinality(ServedHashes)
        /\ Len(identify_calls) = Cardinality(ServedHashes)

\* C3: downloads holds exactly one download per distinct MD5 among the
\* transactions with a non-zero-size body: no hash twice, no served hash
\* missing, and no hash that no persisted body has.
C3_OneUnitPerHash ==
    /\ DOMAIN downloads = {MD5(working_directory[i]) : i \in 1..Len(working_directory)}
    /\ PassAlive =>
        /\ DOMAIN downloads = ServedHashes
        /\ {download_keys[i] : i \in 1..Len(download_keys)} = ServedHashes
        /\ Len(download_keys) = Cardinality(ServedHashes)

\* three transactions, two of them serving the same bytes, two downloads
C3_Witness ==
    /\ pc = "done"
    /\ Len(session_har) = 3
    /\ \A j \in 1..3 : Served(session_har[j])
    /\ Cardinality(DOMAIN downloads) = 2

\* the <<status, request URL>> of the transactions of a capture whose status
\* is a redirect status, in capture order
StatusPairs(entries) ==
    LET moved == SelectSeq(entries, LAMBDA e : e.response.status \in {301, 302, 303, 307, 308})
    IN  [i \in 1..Len(moved) |-> <<moved[i].response.status, moved[i].request.url>>]

EventPairs(events) ==
    [i \in 1..Len(events) |-> <<events[i].status, events[i].redirecting_url>>]

\* C4: every transaction with a status in {301,302,303,307,308} yields a
\* redirect event with that status and its request URL, and these events
\* are in the redirect list, in the rendered table and in
\* http_result["redirects"] in the order of the capture.
C4_RedirectsInCaptureOrder ==
    PassAlive =>
        /\ IsSubseq(StatusPairs(SubSeq(session_har, 1, idx - 1)), EventPairs(redirects))
        /\ pc \in {"downloads", "done"} =>
            /\ IsSubseq(StatusPairs(session_har), EventPairs(redirect_rows))
            /\ IsSubseq([i \in 1..Len(StatusPairs(session_har)) |-> StatusPairs(session_har)[i][2]],
                        [i \in 1..Len(http_result_redirects) |-> http_result_redirects[i].from_url])

\* a 301 after a 302 from another URL, both in the table
C4_Witness ==
    /\ pc = "done"
    /\ \E i, j \in 1..Len(session_har) :
          /\ i < j
          /\ session_har[i].response.status = 302
          /\ session_har[j].response.status = 301
          /\ session_har[i].request.url # session_har[j].request.url
    /\ Len(redirect_rows) >= 2

\* the refresh headers of the form <n>;url=<t>
RefreshForms ==
    {[value |-> R_10, n |-> 10, t |-> T_next], [value |-> R_30, n |-> 30, t |-> T_next],
     [value |-> R_15, n |-> 15, t |-> T_b], [value |-> R_16, n |-> 16, t |-> T_b]}

HasRefreshForm(entry) ==
    /\ REFRESH \in DOMAIN HeaderDict(entry.response.headers)
    /\ \E f \in RefreshForms : f.value = HeaderDict(entry.response.headers)[REFRESH]

RefreshForm(entry) ==
    CHOOSE f \in RefreshForms : f.value = HeaderDict(entry.response.headers)[REFRESH]

\* the transactions whose refresh header asks for a redirect within 15 s
ShortRefresh(entry) == HasRefreshForm(entry) /\ RefreshForm(entry).n <= 15

\* C5: the redirect event of a refresh header carries status 0, whatever
\* the HTTP status of its transaction; its origin is the request URL and
\* its target the text after "url=".
C5_MetaRefreshStatusZero ==
    PassAlive =>
        \A j \in Processed :
            ShortRefresh(session_har[j]) =>
                \E k \in 1..Len(redirects) :
                    /\ redirects[k].status = 0
                    /\ redirects[k].redirecting_url = session_har[j].request.url
                    /\ redirects[k].redirecting_to = RefreshForm(session_har[j]).t

Count(S) == Cardinality(S)

\* C6: a refresh header <n>;url=<t> yields a redirect event from the request
\* URL to <t> if and only if n <= 15, whether or not the transaction also
\* yields the event of a redirect status: the list holds one event per
\* redirect status and one per refresh of at most 15 s, and nothing else.
C6_RefreshWithinFifteen ==
    PassAlive =>
        /\ \A j \in Processed :
              ShortRefresh(session_har[j]) =>
                  \E k \in 1..Len(redirects) :
                      /\ redirects[k].redirecting_url = session_har[j].request.url
                      /\ redirects[k].redirecting_to = RefreshForm(session_har[j]).t
        /\ Len(redirects) =
              Count({j \in Processed : session_har[j].response.status \in {301, 302, 303, 307, 308}})
              + Count({j \in Processed : ShortRefresh(session_har[j])})

\* a 302 with "10;url=/next" gave two events, a 200 with "15;url=/b" one,
\* a 301 with "30;url=/next" only the event of its status
C6_Witness ==
    /\ pc = "done"
    /\ session_har = <<E_moved, E_exe, E_gone>>
    /\ Len(redirects) = 4
    /\ redirects[2].redirecting_to = T_next
    /\ redirects[3].redirecting_to = T_b

\* the Content-Disposition value of a transaction, <<>> when it has none
DispositionOf(entry) ==
    IF CONTENT_DISPOSITION \in DOMAIN HeaderDict(entry.response.headers)
    THEN HeaderDict(entry.response.headers)[CONTENT_DISPOSITION]
    ELSE <<>>

\* the downloads of the capture of one entry whose file name is set
NamedDownloads == {h \in DOMAIN downloads : "filename" \in DOMAIN downloads[h]}

\* C7: with a non-empty Content-Disposition the file name is the capture of
\* the UTF-8 pattern when that pattern matches the value, also when the
\* ASCII pattern matches it too; else the capture of the ASCII pattern when
\* it matches; else the value itself.
C7_Utf8OverridesAscii ==
    (PassAlive /\ Len(session_har) = 1 /\ DispositionOf(session_har[1]) # <<>>) =>
        \A h \in NamedDownloads :
            downloads[h].filename =
                IF UTF8_FILENAME_REGEX(DispositionOf(session_har[1])).found
                THEN UTF8_FILENAME_REGEX(DispositionOf(session_har[1])).group
                ELSE IF ASCII_FILENAME_REGEX(DispositionOf(session_har[1])).found
                THEN ASCII_FILENAME_REGEX(DispositionOf(session_har[1])).group
                ELSE DispositionOf(session_har[1])

\* the file name comes from the URL string: no usable Content-Disposition,
\* no dot in the basename of the path
UrlDerived(entry) ==
    /\ DispositionOf(entry) = <<>>
    /\ ~Contains(basename(urlparse(entry.request.url).path), ".")

\* the URL and its truncated variants
UrlVariants(url) ==
    {url,
     geturl(NoFragment(urlparse(url))),
     geturl(NoParams(NoFragment(urlparse(url)))),
     geturl(NoQuery(NoParams(NoFragment(urlparse(url))))),
     geturl(NoPath(NoQuery(NoParams(NoFragment(urlparse(url))))))}

\* C8: when the URL and every truncated variant are longer than 150
\* characters the URL-derived file name is UnknownFilename_<8 first digits
\* of the sha256>; a URL-derived file name is never longer than 150.
C8_UrlFilenameAtMost150 ==
    (PassAlive /\ Len(session_har) = 1 /\ UrlDerived(session_har[1])) =>
        \A h \in NamedDownloads :
            /\ (\A v \in UrlVariants(session_har[1].request.url) : Len(v) > 150) =>
                  downloads[h].filename = PFX_UNKNOWN \o SubSeq(downloads[h].fileinfo.sha256, 1, 8)
            /\ Len(downloads[h].filename) <= 150

\* the downloads the loop of line 481 has gone through
Classified == {download_keys[k] : k \in 1..(download_idx - 1)}

IsTarget(url) == \E i \in 1..Len(target_urls) : target_urls[i] = url

\* the paths handed to add_extracted and to add_supplementary
ExtractedPaths == {extracted[i].path : i \in 1..Len(extracted)}
SupplementaryPaths == {supplementary[i].path : i \in 1..Len(supplementary)}

\* C9: a download is handed to add_extracted if and only if its URL is a
\* target URL, or it is the only download, or its type matches
\* regex_extract_filetype, or extract_unmatched_filetype is set and its
\* type does not match regex_supplementary_filetype; otherwise it is handed
\* to add_supplementary.
C9_ExtractedIffPromoted ==
    pc \in {"downloads", "done"} =>
        \A h \in Classified :
            LET d == downloads[h]
                promoted ==
                    \/ IsTarget(d.url)
                    \/ Len(download_keys) = 1
                    \/ d.fileinfo.type \in params.regex_extract_filetype
                    \/ /\ params.extract_unmatched_filetype
                       /\ d.fileinfo.type \notin params.regex_supplementary_filetype
            IN  /\ d.path \in ExtractedPaths <=> promoted
                /\ d.path \in SupplementaryPaths <=> ~promoted

\* three downloads: the page of the target URL and the executable are
\* extracted, the image from another URL is filed as supplementary beside
\* the rewritten capture
C9_Witness ==
    /\ pc = "done"
    /\ ~params.extract_unmatched_filetype
    /\ Len(download_keys) = 3
    /\ Len(extracted) = 2
    /\ Len(supplementary) = 2

\* a transaction without a body: no size, size zero, or a size and no text
Bodyless(entry) ==
    \/ "size" \notin DOMAIN entry.response.content
    \/ entry.response.content.size = 0
    \/ "text" \notin DOMAIN entry.response.content

\* C10: a transaction whose content has size zero, no size, or a size and no
\* body text does not fail the pass: the pass never stops at it.
C10_BodylessEntryNeverFails ==
    \A j \in 1..Len(session_har) :
        Bodyless(session_har[j]) => ~(pc = "failed" /\ idx = j)

(***************************************************************************)
(* Captures with refresh headers that line 350-351 cannot use              *)
(***************************************************************************)
R_NonNumeric == <<"a","b","c",";","u","r","l","=","/","b">>
R_NoSeparator == <<"1","0">>
R_NoUrl == <<"1","0",";","/","b">>

\* a page with a body and a transport error, the delay is not a number
E_badnum ==
    WithError(Entry(U2, 200, <<Header(REFRESH, R_NonNumeric)>>,
                    [size |-> 2, text |-> "hi", mimeType |-> "text/html"]), "net::ERR_ABORTED")
\* a 302 without a body, the header has no ";"
E_nosep ==
    WithRedirectURL(Entry(U3, 302, <<Header(REFRESH, R_NoSeparator)>>,
                          [size |-> 0, mimeType |-> ""]), U1)
\* the bytes of E_badnum again, the second part does not start with "url="
E_nourl ==
    Entry(U1, 200, <<Header(REFRESH, R_NoUrl)>>,
          [size |-> 4, text |-> "aGk=", encoding |-> "base64", mimeType |-> "text/plain"])

RefreshEntries == {E_badnum, E_nosep, E_nourl, E_exe, E_moved, E_notext}

InitRefresh == InitWith(SeqsUpTo(RefreshEntries, MaxEntries))

SpecRefresh == InitRefresh /\ [][Next]_vars

MalformedRefreshValues == {R_NonNumeric, R_NoSeparator, R_NoUrl}

MalformedRefresh(entry) ==
    /\ REFRESH \in DOMAIN HeaderDict(entry.response.headers)
    /\ HeaderDict(entry.response.headers)[REFRESH] \in MalformedRefreshValues

\* the transaction without its refresh header when that header is malformed
WithoutMalformedRefresh(entry) ==
    IF MalformedRefresh(entry)
    THEN [entry EXCEPT !.response.headers = SelectSeq(@, LAMBDA h : h.name # REFRESH)]
    ELSE entry

RECURSIVE RedirectsWithout(_)
\* the redirect list of the first k transactions, malformed headers removed
RedirectsWithout(k) ==
    IF k = 0 THEN <<>>
    ELSE RedirectsAfter(RedirectsWithout(k - 1), WithoutMalformedRefresh(session_har[k]))

RECURSIVE ErrorsWithout(_)
ErrorsWithout(k) ==
    IF k = 0 THEN <<>>
    ELSE ErrorsAfter(ErrorsWithout(k - 1), WithoutMalformedRefresh(session_har[k]))

\* C11: a refresh header with a non-numeric delay, without ";", or whose
\* second part does not start with "url=" gives no redirect event and no
\* error: the pass stops only at a body that raises KeyError, and the
\* redirects, the error events and the downloads are those of the capture
\* without these headers, for the transaction itself and for those after it.
C11_MalformedRefreshIgnored ==
    /\ pc = "failed" =>
          /\ Served(session_har[idx])
          /\ ~({"text", "mimeType"} \subseteq DOMAIN session_har[idx].response.content)
    /\ PassAlive =>
          /\ redirects = RedirectsWithout(idx - 1)
          /\ Len(redirects) =
                Count({j \in Processed : session_har[j].response.status \in {301, 302, 303, 307, 308}})
                + Count({j \in Processed : ShortRefresh(session_har[j])})
          /\ response_errors = ErrorsWithout(idx - 1)
          /\ DOMAIN downloads = ServedHashes
          /\ Len(working_directory) = Count({j \in Processed : Served(session_har[j])})
          /\ \A j \in Processed :
                Served(session_har[j]) => "_replaced" \in DOMAIN har_content[j].response.content

\* a page with a non-numeric delay, a body and a transport error, a 302
\* without ";", then a page whose "15;url=/b" is followed
C11_Witness ==
    /\ pc = "done"
    /\ session_har = <<E_badnum, E_nosep, E_exe>>
    /\ Len(redirects) = 2
    /\ redirects[2].redirecting_to = T_b
    /\ Len(error_lines) = 1
    /\ Cardinality(DOMAIN downloads) = 2

\* the entry of the rewritten capture is the original one but for the
\* content, where "text" is gone and "_replaced" holds the sha256 of the body
RewrittenFrom(written, original) ==
    LET c == original.response.content
        w == written.response.content
    IN  /\ DOMAIN w = (DOMAIN c \ {"text"}) \cup {"_replaced"}
        /\ w["_replaced"] = SHA256(ContentBytes(c))
        /\ \A k \in DOMAIN c \ {"text", "_replaced"} : w[k] = c[k]
        /\ [written EXCEPT !.response.content = c] = original

\* C12: in the rewritten capture each transaction whose body was persisted
\* has lost its body text and gained a token equal to the sha256 of that
\* body, all its other fields being as in the capture; a transaction without
\* a persisted body is written back as it was; the transactions are as many
\* as in the capture and in the same order.
C12_RewrittenCapture ==
    pc \in {"downloads", "done"} =>
        /\ Len(modified_session_har) = Len(session_har)
        /\ \A j \in 1..Len(session_har) :
              IF Served(session_har[j])
              THEN RewrittenFrom(modified_session_har[j], session_har[j])
              ELSE modified_session_har[j] = session_har[j]

\* a base64 body with a Content-Disposition, a 302 without a body, an
\* executable: the first and the last carry tokens, the 302 is untouched
C12_Witness ==
    /\ pc = "done"
    /\ session_har = <<E_copy, E_moved, E_exe>>
    /\ modified_session_har[1].response.content["_replaced"] = SHA256("hi")
    /\ modified_session_har[2] = E_moved
    /\ modified_session_har[3].response.content["_replaced"] = SHA256("bye")

(***************************************************************************)
(* The output folder of Kangooroo (lines 175-213)                          *)
(***************************************************************************)
NO_FOLDER == "No Kangooroo output folder found."
MULTIPLE_FOLDERS == "Multiple Kangooroo output folders found."
NO_RESULTS == "No Kangooroo results.json found."

\* possible_folders[0]
FirstFolder(possible_folders) == CHOOSE f \in possible_folders : TRUE

\* line 189 taken as never true
IsAmbiguous_Never(possible_folders) == FALSE

\* line 189: len(possible_folders) != 1, after line 182 excluded 0
IsAmbiguous(possible_folders) == Cardinality(possible_folders) # 1

\* lines 179-195: the Exception raised when the folder of the URL is missing
MismatchRaises(possible_folders) ==
    IF Cardinality(possible_folders) = 0 THEN NO_FOLDER
    ELSE IF IsAmbiguous(possible_folders) THEN MULTIPLE_FOLDERS
    ELSE ""

\* lines 177-204: the folder the analysis reads, "" when none was chosen
ChosenFolder(possible_folders) ==
    IF URL_MD5 \in possible_folders THEN URL_MD5
    ELSE IF MismatchRaises(possible_folders) # "" THEN ""
    ELSE FirstFolder(possible_folders)

\* lines 206-213
ResultsRaises(folder, holders) == IF folder \in holders THEN "" ELSE NO_RESULTS

\* lines 179-213: the message of the Exception that leaves execute, or ""
LocateRaises(possible_folders, holders) ==
    IF URL_MD5 \notin possible_folders /\ MismatchRaises(possible_folders) # ""
    THEN MismatchRaises(possible_folders)
    ELSE ResultsRaises(ChosenFolder(possible_folders), holders)

\* lines 175-213
LocateOutput ==
    /\ pc = "locate"
    /\ output_folder' = ChosenFolder(output_dir)
    /\ url_hash_mismatch' = (URL_MD5 \notin output_dir /\ MismatchRaises(output_dir) = "")
    /\ raised' = LocateRaises(output_dir, with_results)
    /\ pc' = IF LocateRaises(output_dir, with_results) = "" THEN "entries" ELSE "failed"
    /\ UNCHANGED <<output_dir, with_results, inputVars, passVars, reportVars, tagVars>>

NextOutput ==
    \/ LocateOutput
    \/ ProcessEntry
    \/ ProcessEntryKeyError
    \/ WriteReport
    \/ ClassifyDownload
    \/ FinishReport

OutputCaptures == SeqsUpTo({E_page, E_exe, E_notext}, MaxEntries - 1)

\* the state after Kangooroo ran (line 167): any folders, some with results
InitOutput ==
    /\ pc = "locate"
    /\ output_dir \in SUBSET ({URL_MD5} \cup OTHER_MD5)
    /\ with_results \in SUBSET output_dir
    /\ output_folder = ""
    /\ url_hash_mismatch = FALSE
    /\ raised = ""
    /\ Fresh(OutputCaptures)

SpecOutput == InitOutput /\ [][NextOutput]_vars

Located == pc # "locate"

\* the folder of the requested URL is missing and several others are there
SeveralOtherFolders == URL_MD5 \notin output_dir /\ Cardinality(output_dir) >= 2

\* C13: when the folder named after the MD5 of the requested URL is missing
\* and several other folders are present the analysis does not abort: it
\* adds the section "URL hash mismatch" and goes on; only an empty output
\* directory or a missing results.json raises.
C13_MultipleFoldersContinue ==
    (Located /\ SeveralOtherFolders /\ output_dir \subseteq with_results) =>
        /\ raised = ""
        /\ url_hash_mismatch

\* C13, as the code has it: with the folder of the requested URL missing,
\* exactly one other folder gives the section "URL hash mismatch" and the
\* analysis reads that folder, raising only if its results.json is missing;
\* no folder or several folders raise and nothing is reported; when the
\* folder of the requested URL is there no mismatch is reported.
C13_SingleFolderMismatch ==
    Located =>
        /\ URL_MD5 \in output_dir =>
              /\ ~url_hash_mismatch /\ output_folder = URL_MD5
              /\ raised = IF URL_MD5 \in with_results THEN "" ELSE NO_RESULTS
        /\ (URL_MD5 \notin output_dir /\ output_dir = {}) =>
              raised = NO_FOLDER /\ ~url_hash_mismatch /\ pc = "failed"
        /\ SeveralOtherFolders =>
              raised = MULTIPLE_FOLDERS /\ ~url_hash_mismatch /\ pc = "failed"
        /\ (URL_MD5 \notin output_dir /\ Cardinality(output_dir) = 1) =>
              /\ url_hash_mismatch /\ output_folder \in output_dir
              /\ raised = IF output_dir \subseteq with_results THEN "" ELSE NO_RESULTS
        /\ raised # "" => pc = "failed" /\ idx = 1 /\ redirects = <<>> /\ downloads = <<>>

\* the only folder is the one of another URL: the mismatch is reported and
\* the analysis of its capture ran to the end
C13_Witness ==
    /\ pc = "done"
    /\ URL_MD5 \notin output_dir
    /\ url_hash_mismatch
    /\ output_folder \in OTHER_MD5
    /\ Len(content_rows) >= 1

(***************************************************************************)
(* Listings: the page of the requested URL parsed into each soup           *)
(***************************************************************************)
MaxAnchors == 2

URI_files == <<"h","t","t","p",":","/","/","h","/","f","i","l","e","s","/">>
URI_files_bare == <<"h","t","t","p",":","/","/","h","/","f","i","l","e","s">>

DirectoryTitles == {NoTitle, TitleNoString, Title(T_IndexOf), Title(T_INDEX), Title(T_Home)}

DirectoryHrefs ==
    {H_file, H_folder, H_ordering, H_external, H_self, H_root, H_host, H_rootfile, H_empty,
     H_dotslash, H_updir, H_hidden}

PageEntry(url) == Entry(url, 200, <<>>, [size |-> 2, text |-> "hi", mimeType |-> "text/html"])

InitDirectory ==
    /\ pc = "entries"
    /\ Located_Requested
    /\ uri \in {URI_files, URI_files_bare}
    /\ parsed \in {[bytes \in {"hi"} |-> Soup(t, a)] :
                      t \in DirectoryTitles, a \in SeqsUpTo(DirectoryHrefs, MaxAnchors)}
    /\ TagsIdle
    /\ FreshOn({<<PageEntry(uri)>>, <<PageEntry(uri), E_notext>>}, {<<uri>>}, ParamChoices)

SpecDirectory == InitDirectory /\ [][Next]_vars

\* the page of the requested URL was the only transaction and the report
\* is complete
ListingDone == pc = "done" /\ Len(session_har) = 1 /\ session_har[1].request.url = uri

\* the title contains "index of", whatever the case
IndexOfTitle(soup) ==
    soup.title.tag /\ soup.title.has_string
    /\ ContainsSeq(Lower(soup.title.string), INDEX_OF)

\* a scheme-qualified URL that does not start with "."
ExternalHref(href) == ContainsSeq(href, SCHEME_SEP) /\ href[1] # "."

\* a root-relative link to the page itself or to a directory above it
SelfOrAboveHref(href, page_uri) ==
    /\ href # <<>> /\ href[1] = "/"
    /\ \/ href = page_uri
       \/ StartsWithAt(urlparse(page_uri).path \o <<"/">>, 1, RStripSlash(href) \o <<"/">>)

QualifyingHrefs(anchors, page_uri) ==
    SelectSeq(anchors, LAMBDA href :
        /\ ~ExternalHref(href)
        /\ ~(href # <<>> /\ href[1] = "?")
        /\ ~SelfOrAboveHref(href, page_uri))

FolderHref(href) == href # <<>> /\ href[Len(href)] = "/"

\* C14: for a page whose title contains "index of" the finding holds exactly
\* the hrefs that are not scheme-qualified external URLs, do not begin with
\* "?" and are not a root-relative link to the page itself: those ending in
\* "/" as folder links, the others as file links, in the order of the page.
\* Without "index of" in the title, or without such a link, there is no
\* finding, and the analysis still completes.
C14_OpenDirectoryLinks ==
    ListingDone =>
        IF IndexOfTitle(parsed["hi"]) /\ QualifyingHrefs(parsed["hi"].anchors, uri) # <<>>
        THEN /\ Len(open_directory) = 1
             /\ open_directory[1].open_directory_folders =
                   SelectSeq(QualifyingHrefs(parsed["hi"].anchors, uri), FolderHref)
             /\ open_directory[1].open_directory_links =
                   SelectSeq(QualifyingHrefs(parsed["hi"].anchors, uri),
                             LAMBDA href : ~FolderHref(href))
        ELSE open_directory = <<>>

\* the href without one leading "./"
WithoutDotSlash(link) ==
    IF Len(link) >= 2 /\ link[1] = "." /\ link[2] = "/" THEN Tail_from(link, 3) ELSE link

\* base + "/" + link', base the URL of the page without its trailing slashes
ResolvedLinks(page_uri, links) ==
    [i \in 1..Len(links) |-> RStripSlash(page_uri) \o <<"/">> \o WithoutDotSlash(links[i])]

\* C15: each kept link is reported as base + "/" + link', where base is the
\* URL of the page without trailing slashes and link' the href without a
\* leading "./": every other character of the href stays, the "." of a
\* dot-file and a leading "../" included.
C15_LinksJoinedToBase ==
    ListingDone =>
        \A k \in 1..Len(open_directory) :
            /\ open_directory[k].file_lines =
                  ResolvedLinks(uri, open_directory[k].open_directory_links)
            /\ open_directory[k].folder_lines =
                  ResolvedLinks(uri, open_directory[k].open_directory_folders)
            /\ open_directory[k].tags =
                  ResolvedLinks(uri, open_directory[k].open_directory_links)
                  \o ResolvedLinks(uri, open_directory[k].open_directory_folders)

\* the URL, then the URL without its fragment, without its params too,
\* without its query too, without its path too
UrlCandidates(url) ==
    <<url,
      geturl(NoFragment(urlparse(url))),
      geturl(NoParams(NoFragment(urlparse(url)))),
      geturl(NoQuery(NoParams(NoFragment(urlparse(url))))),
      geturl(NoPath(NoQuery(NoParams(NoFragment(urlparse(url))))))>>

Fitting(candidates) == {i \in 1..Len(candidates) : Len(candidates[i]) <= 150}

\* C16: a file name derived from the (non-empty) URL string is the first of the URL,
\* the URL without fragment, then without params, then without query, then
\* without path, that has at most 150 characters: the components go one
\* after the other in that order and none goes once the length fits; a URL
\* of at most 150 characters is the file name as it is.
C16_FirstCandidateThatFits ==
    (PassAlive /\ Len(session_har) = 1 /\ UrlDerived(session_har[1])
       /\ session_har[1].request.url # <<>>) =>
        \A h \in NamedDownloads :
            /\ Fitting(UrlCandidates(session_har[1].request.url)) # {} =>
                  downloads[h].filename =
                      UrlCandidates(session_har[1].request.url)[
                          Least(Fitting(UrlCandidates(session_har[1].request.url)))]
            /\ Len(session_har[1].request.url) <= 150 =>
                  downloads[h].filename = session_har[1].request.url

\* a URL too long by its params: the fragment and the params are gone, the
\* query stays
C16_Witness ==
    /\ pc = "done"
    /\ Len(session_har) = 1
    /\ session_har[1].request.url = U_LongParams
    /\ UrlDerived(session_har[1])
    /\ \E h \in NamedDownloads : downloads[h].filename = U_prefix \o <<"?","q">>

(***************************************************************************)
(* The tag-driven downloader: URLDownloader.execute of                     *)
(* src/urldownloader/urldownloader.py.  A URL is a pair <<value, score>>.   *)
(***************************************************************************)
MaxTags == 2

SUBMITTED_SCORE == 10000
FILTER_BELOW == 500

SU == "http://s/"
TU1 == "http://t/1"
TU2 == "http://t/2"

\* line 47
submitted_url_list(t) ==
    IF t.submitted_url # "" /\ t.depth = 0
    THEN <<<<t.submitted_url, SUBMITTED_SCORE>>>>
    ELSE <<>>

\* x goes after the elements of the sorted list whose score is not above its own
InsertByScore(sorted, x) ==
    SubSeq(sorted, 1, Cardinality({i \in 1..Len(sorted) : sorted[i][2] <= x[2]}))
    \o <<x>>
    \o SubSeq(sorted, Cardinality({i \in 1..Len(sorted) : sorted[i][2] <= x[2]}) + 1, Len(sorted))

RECURSIVE SortByScore(_)
\* line 55: sorted(urls, key=lambda x: x[1]), ascending and stable
SortByScore(list) ==
    IF list = <<>> THEN <<>>
    ELSE InsertByScore(SortByScore(SubSeq(list, 1, Len(list) - 1)), list[Len(list)])

\* line 51
TaskUrls(t) == t.static \o t.dynamic \o submitted_url_list(t)

\* tag_value in request.temp_submission_data['visited_urls']
Visited(tag_value, visited) == \E i \in 1..Len(visited) : visited[i] = tag_value

\* line 65
apply_filter(tag_score) == tag_score < FILTER_BELOW

\* fetch_uri (lines 22-33) and lines 66-72: a file that is extracted, a
\* response that is not ok or a ConnectionError, which give a row of the
\* table; with the filter on, an ok response leaves execute by an exception
\* (None is in content_type_filter, and fetch_uri returns no response)
FetchOutcomes(filtered) ==
    IF filtered THEN {"raises", "response", "ConnectionError"}
    ELSE {"file", "response", "ConnectionError"}

\* lines 36-53
StartExecute ==
    /\ pc = "tags"
    /\ urls' = SortByScore(TaskUrls(task))
    /\ url_idx' = 1
    /\ pc' = "urls"
    /\ UNCHANGED <<task, visited_urls, fetched, inputVars, locateVars, passVars, reportVars>>

\* lines 57-58
SkipVisited ==
    /\ pc = "urls"
    /\ url_idx <= Len(urls)
    /\ Visited(urls[url_idx][1], visited_urls)
    /\ url_idx' = url_idx + 1
    /\ UNCHANGED <<pc, task, urls, visited_urls, fetched, inputVars, locateVars, passVars,
                   reportVars>>

\* lines 59-60 and 77
BreakBelowMinimum ==
    /\ pc = "urls"
    /\ url_idx <= Len(urls)
    /\ ~Visited(urls[url_idx][1], visited_urls)
    /\ urls[url_idx][2] < task.minimum_maliciousness
    /\ pc' = "finished"
    /\ UNCHANGED <<task, urls, url_idx, visited_urls, fetched, inputVars, locateVars, passVars,
                   reportVars>>

\* lines 62-75
FetchUrl ==
    /\ pc = "urls"
    /\ url_idx <= Len(urls)
    /\ ~Visited(urls[url_idx][1], visited_urls)
    /\ urls[url_idx][2] >= task.minimum_maliciousness
    /\ visited_urls' = Append(visited_urls, urls[url_idx][1])
    /\ \E outcome \in FetchOutcomes(apply_filter(urls[url_idx][2])) :
          /\ fetched' = Append(fetched, [uri |-> urls[url_idx][1],
                                         apply_filter |-> apply_filter(urls[url_idx][2]),
                                         outcome |-> outcome])
          /\ pc' = IF outcome = "raises" THEN "failed" ELSE "urls"
          /\ url_idx' = IF outcome = "raises" THEN url_idx ELSE url_idx + 1
    /\ UNCHANGED <<task, urls, inputVars, locateVars, passVars, reportVars>>

\* the loop is over: line 77
FinishExecute ==
    /\ pc = "urls"
    /\ url_idx > Len(urls)
    /\ pc' = "finished"
    /\ UNCHANGED <<task, urls, url_idx, visited_urls, fetched, inputVars, locateVars, passVars,
                   reportVars>>

NextTags ==
    \/ StartExecute
    \/ SkipVisited
    \/ BreakBelowMinimum
    \/ FetchUrl
    \/ FinishExecute

\* the tags of prior services
TagChoices == {<<TU1, 10>>, <<TU1, 600>>, <<TU2, 600>>, <<TU2, 20000>>}

IdleParams ==
    {[regex_extract_filetype |-> {}, regex_supplementary_filetype |-> {},
      extract_unmatched_filetype |-> FALSE]}

\* a task of the tag-driven downloader; the Kangooroo service is not running
InitTags ==
    /\ pc = "tags"
    /\ task \in [submitted_url : {"", SU}, depth : {0, 1},
                 static : SeqsUpTo(TagChoices, MaxTags),
                 dynamic : {<<>>, <<<<TU2, 10>>>>},
                 minimum_maliciousness : {0, 500}]
    /\ urls = <<>>
    /\ url_idx = 1
    /\ visited_urls \in {<<>>, <<TU1>>}
    /\ fetched = <<>>
    /\ Located_Requested
    /\ uri = U1
    /\ parsed = ParsedDefault
    /\ FreshOn({<<>>}, {<<U1>>}, IdleParams)

SpecTags == InitTags /\ [][NextTags]_vars

\* C17: at depth 0 with a submitted_url, that URL is the first one execute
\* fetches, before any network.static.uri or network.dynamic.uri tag,
\* whatever the scores of the tags and minimum_maliciousness.
C17_SubmittedUrlFetchedFirst ==
    (task.depth = 0 /\ task.submitted_url # "" /\ fetched # <<>>) =>
        fetched[1].uri = task.submitted_url

=============================================================================
